---- MODULE Spec2Model ----
(***************************************************************************)
(* Model of inhouse_bot/inhouse_bot.py: the InhouseBot scheduler           *)
(* (background_jobs, re-armed through threading.Timer), the on_ready       *)
(* handler and on_command_error, together with the queue / ready-check /  *)
(* game engine (game_queue) they drive.                                    *)
(*                                                                         *)
(* Two execution contexts exist: the asyncio event loop thread ("loop"),  *)
(* which runs the handlers and the tasks created with loop.create_task,   *)
(* and the threads of threading.Timer ("timer"), which run every          *)
(* background_jobs call except the first one of a chain.                  *)
(***************************************************************************)
EXTENDS Integers, FiniteSets, Sequences

\* ------------------------------------------------------------- bounds
NumServers == 2        \* guilds the bot is connected to
NumPlayers == 2        \* players per server
MaxTicks == 6          \* background_jobs calls explored (job_counter cap)
MaxReady == 2          \* on_ready events explored (connect + reconnects)
MaxInterval == 2       \* BACKGROUND_JOBS_INTERVAL ranges over 1..MaxInterval slots
MaxGames == 1          \* games created per server

\* ------------------------------------------------- program constants
PollEvery == 5         \* "once every 5 job cycles"

\* --------------------------------------------------------- the clock
\* Wall-clock time is counted in slots; SlotsPerMinute slots make one
\* wall-clock minute (one value of strftime("%H:%M")) and the day has two
\* minutes, minute 0 being QUEUE_RESET_TIME.
SlotsPerMinute == MaxInterval
DaySlots == 2 * SlotsPerMinute
QUEUE_RESET_TIME == 0

Servers == 1..NumServers
Players == 1..NumPlayers
Roles == {"top", "jungle"}
None == "None"
NoAction == <<>>
NoPartner == 0

\* self.guilds: the servers in connection order; guilds[0] is Guilds[1]
Guilds == [i \in 1..NumServers |-> i]

VARIABLES
    now,               \* wall clock, in slots of the day
    interval,          \* BACKGROUND_JOBS_INTERVAL, in slots
    queue_reset,       \* ConfigStore: server -> "queue_reset" setting
    tournaments,       \* INHOUSE_BOT_TOURNAMENTS
    queue_channels,    \* the servers with a channel marked as a queue
    timers,            \* pending threading.Timer objects: remaining delay of each
    job_counter,       \* InhouseBot.job_counter
    closed,            \* the bot was shut down (event loop closed)
    ready_pc,          \* position of the on_ready coroutine
    tasks,             \* the kinds of task handed to the event loop and not yet run
    inflight,          \* interactive action executing on the loop thread
    queue,             \* QueueStore: server -> player -> requested role
    duo,               \* QueueStore: server -> player -> duo partner (NoPartner: none)
    ready_check,       \* ReadyCheckEngine: server -> active check
    rc_timers,         \* deadline timers: server -> set of "live"/"stale"
    games,             \* GameLifecycle: server -> sequence of games
    reset_this_minute, \* reset_queue was called in the current wall-clock minute
    last               \* the step just taken and what it did

vars == <<now, interval, queue_reset, tournaments, queue_channels, timers, job_counter, closed,
          ready_pc, tasks, inflight, queue, duo, ready_check, rc_timers, games,
          reset_this_minute, last>>

sched == <<timers, job_counter, tasks, reset_this_minute>>
config == <<interval, queue_reset, tournaments, queue_channels>>
engine == <<queue, duo, ready_check, rc_timers, games>>

\* ------------------------------------------------------------ helpers
EmptyQueue == [p \in Players |-> None]
NoLinks == [p \in Players |-> NoPartner]
NoTimers == [d \in 0..MaxInterval |-> 0]
TaskIds == {<<"update_queue_channels", 0>>} \cup {<<"tournament_check", s>> : s \in Servers}

RECURSIVE SumOver(_, _)
SumOver(f, S) == IF S = {} THEN 0
                 ELSE LET x == CHOOSE y \in S : TRUE IN f[x] + SumOver(f, S \ {x})

\* number of pending scheduler timers
PendingTimers == SumOver(timers, 0..MaxInterval)

\* the step record kept in `last`
NoStep == [name |-> "init", thread |-> None, server |-> 0,
           reset |-> FALSE, repeated |-> FALSE, updates |-> 0, polls |-> {}, raised |-> FALSE,
           counter |-> 0, at_reset |-> FALSE, cancelled |-> {}, error |-> None,
           msg |-> None, logged |-> FALSE]

\* now.strftime("%H:%M") == QUEUE_RESET_TIME
AtResetTime == (now \div SlotsPerMinute) = QUEUE_RESET_TIME

\* get_server_config_by_key(server_id=self.guilds[0].id, key="queue_reset")
QueueResetSetting == queue_reset[Guilds[1]]

\* game_queue.reset_queue() called without a channel: every server's queue
reset_queue(q) == [s \in Servers |-> EmptyQueue]

\* the duo links go with the entries they link
reset_links(d) == [s \in Servers |-> NoLinks]

\* the engine state as one record
Engine == [queue |-> queue, duo |-> duo, ready_check |-> ready_check,
           rc_timers |-> rc_timers, games |-> games]

\* the reset branch of a tick: its one call into the engine, reset_queue()
AfterResetCancelling(e) ==
    [e EXCEPT !.queue = reset_queue(e.queue), !.duo = reset_links(e.duo),
              !.ready_check = [s \in Servers |-> [p \in Players |-> None]]]
AfterReset(e) == [e EXCEPT !.queue = reset_queue(e.queue), !.duo = reset_links(e.duo)]

\* "Check for completed matches once every 5 job cycles"
PollDueOffByOne(counter) == tournaments /\ counter % PollEvery = 1
PollDue(counter) == tournaments /\ counter % PollEvery = 0

\* update_queue_channels is scheduled inside the reset branch, after reset_queue()
UpdateDueAlways(didReset) == TRUE
UpdateDue(didReset) == didReset

\* the servers one poll tick schedules a tournament_check for
PollTargets == {Guilds[1]}

\* the finally clause re-arms the timer whether or not the body raised
RearmsOnSuccess(raised) == ~raised
Rearms(raised) == TRUE

\* threading.Timer(BACKGROUND_JOBS_INTERVAL, self.background_jobs).start()
StartTimer(ts) == [ts EXCEPT ![interval] = @ + 1]

\* where a tick can raise: the configuration lookup, reset_queue, or one of
\* the two loop.create_task calls (which always raises on a closed loop)
Faults == {"none", "config", "reset", "update_task", "poll_task"}

\* InhouseBot.background_jobs, run on `thread`, with the pending timers `ts`
\* that remain once the timer that called it (if any) is consumed
background_jobs(thread, fault, ts) ==
    LET cfgRaised == fault = "config"
        wantReset == ~cfgRaised /\ AtResetTime /\ QueueResetSetting
        resetRaised == wantReset /\ fault = "reset"
        didReset == wantReset /\ ~resetRaised
        updRaised == UpdateDue(didReset) /\ (closed \/ fault = "update_task")
        didUpdate == UpdateDue(didReset) /\ ~updRaised
        reachedPoll == ~cfgRaised /\ ~resetRaised /\ ~updRaised
        wantPoll == reachedPoll /\ PollDue(job_counter)
        pollRaised == wantPoll /\ (closed \/ fault = "poll_task")
        didPoll == wantPoll /\ ~pollRaised
        raised == cfgRaised \/ resetRaised \/ updRaised \/ pollRaised
        polled == IF didPoll THEN PollTargets ELSE {}
        e == IF didReset THEN AfterReset(Engine) ELSE Engine
    IN  /\ job_counter < MaxTicks
        /\ queue' = e.queue
        /\ duo' = e.duo
        /\ ready_check' = e.ready_check
        /\ rc_timers' = e.rc_timers
        /\ games' = e.games
        /\ tasks' = tasks \cup (IF didUpdate THEN {<<"update_queue_channels", 0>>} ELSE {})
                          \cup {<<"tournament_check", s>> : s \in polled}
        /\ job_counter' = job_counter + 1
        /\ timers' = IF Rearms(raised) THEN StartTimer(ts) ELSE ts
        /\ reset_this_minute' = (reset_this_minute \/ didReset)
        /\ last' = [NoStep EXCEPT !.name = "background_jobs", !.thread = thread,
                                  !.reset = didReset,
                                  !.repeated = didReset /\ reset_this_minute,
                                  !.updates = IF didUpdate THEN 1 ELSE 0,
                                  !.polls = polled, !.raised = raised,
                                  !.counter = job_counter, !.at_reset = AtResetTime]

\* a threading.Timer expires and calls background_jobs on its own thread
TimerFire ==
    /\ timers[0] > 0
    /\ \E fault \in Faults :
          background_jobs("timer", fault, [timers EXCEPT ![0] = @ - 1])
    /\ UNCHANGED <<now, config, closed, ready_pc, inflight>>

\* wall-clock time passes by one slot; an expired timer may fire late
Advance ==
    /\ now' = (now + 1) % DaySlots
    /\ timers' = [d \in 0..MaxInterval |->
                    IF d = 0 THEN timers[0] + timers[1]
                    ELSE IF d < MaxInterval THEN timers[d + 1] ELSE 0]
    /\ reset_this_minute' = (reset_this_minute /\ (now + 1) % SlotsPerMinute # 0)
    /\ UNCHANGED <<config, job_counter, closed, ready_pc, tasks, inflight, engine, last>>

\* ------------------------------------------------- on_command_error
ErrorKinds == {"CommandNotFound", "MissingRequiredArgument", "ConversionError",
               "NoPrivateMessage", "QueueChannelsOnly", "SameRolesForDuo",
               "AdminGroupOnly", "CommandInvokeError", "CommandError"}
Originals == {"PlayerInGame", "PlayerInReadyCheck", "AlreadyQueued", "NoActiveCheck",
              "StaleCandidate", "AlreadyScored", "AlreadyPending"}

\* on_command_error without its branches for the errors of game_queue
on_command_error_no_bar(kind, original) ==
    IF kind = "CommandNotFound" THEN [msg |-> "command_not_found", logged |-> FALSE]
    ELSE IF kind = "MissingRequiredArgument" THEN [msg |-> "arguments_missing", logged |-> FALSE]
    ELSE IF kind = "ConversionError" THEN [msg |-> None, logged |-> FALSE]
    ELSE IF kind = "NoPrivateMessage" THEN [msg |-> "server_only", logged |-> FALSE]
    ELSE IF kind = "QueueChannelsOnly" THEN [msg |-> "queue_channel_only", logged |-> FALSE]
    ELSE IF kind = "SameRolesForDuo" THEN [msg |-> "duo_different_roles", logged |-> FALSE]
    ELSE IF kind = "AdminGroupOnly" THEN [msg |-> "admins_only", logged |-> FALSE]
    ELSE [msg |-> "generic_error", logged |-> TRUE]

\* on_command_error without its silent branch for ConversionError
on_command_error_no_conversion(kind, original) ==
    IF kind = "CommandNotFound" THEN [msg |-> "command_not_found", logged |-> FALSE]
    ELSE IF kind = "MissingRequiredArgument" THEN [msg |-> "arguments_missing", logged |-> FALSE]
    ELSE IF kind = "NoPrivateMessage" THEN [msg |-> "server_only", logged |-> FALSE]
    ELSE IF kind = "QueueChannelsOnly" THEN [msg |-> "queue_channel_only", logged |-> FALSE]
    ELSE IF kind = "SameRolesForDuo" THEN [msg |-> "duo_different_roles", logged |-> FALSE]
    ELSE IF kind = "AdminGroupOnly" THEN [msg |-> "admins_only", logged |-> FALSE]
    ELSE IF kind = "CommandInvokeError" THEN
        IF original = "PlayerInGame" THEN
            [msg |-> IF tournaments THEN "unscored_game_auto" ELSE "unscored_game_won",
             logged |-> FALSE]
        ELSE IF original = "PlayerInReadyCheck" THEN
            [msg |-> "game_already_found", logged |-> FALSE]
        ELSE [msg |-> "generic_error", logged |-> TRUE]
    ELSE [msg |-> "generic_error", logged |-> TRUE]

\* on_command_error without its branch for SameRolesForDuo
on_command_error_no_duo(kind, original) ==
    IF kind = "CommandNotFound" THEN [msg |-> "command_not_found", logged |-> FALSE]
    ELSE IF kind = "MissingRequiredArgument" THEN [msg |-> "arguments_missing", logged |-> FALSE]
    ELSE IF kind = "ConversionError" THEN [msg |-> None, logged |-> FALSE]
    ELSE IF kind = "NoPrivateMessage" THEN [msg |-> "server_only", logged |-> FALSE]
    ELSE IF kind = "QueueChannelsOnly" THEN [msg |-> "queue_channel_only", logged |-> FALSE]
    ELSE IF kind = "AdminGroupOnly" THEN [msg |-> "admins_only", logged |-> FALSE]
    ELSE IF kind = "CommandInvokeError" THEN
        IF original = "PlayerInGame" THEN
            [msg |-> IF tournaments THEN "unscored_game_auto" ELSE "unscored_game_won",
             logged |-> FALSE]
        ELSE IF original = "PlayerInReadyCheck" THEN
            [msg |-> "game_already_found", logged |-> FALSE]
        ELSE [msg |-> "generic_error", logged |-> TRUE]
    ELSE [msg |-> "generic_error", logged |-> TRUE]

\* InhouseBot.on_command_error: the message sent to ctx (None: nothing is
\* sent) and whether the error is logged
on_command_error(kind, original) ==
    IF kind = "CommandNotFound" THEN [msg |-> "command_not_found", logged |-> FALSE]
    ELSE IF kind = "MissingRequiredArgument" THEN [msg |-> "arguments_missing", logged |-> FALSE]
    ELSE IF kind = "ConversionError" THEN [msg |-> None, logged |-> FALSE]
    ELSE IF kind = "NoPrivateMessage" THEN [msg |-> "server_only", logged |-> FALSE]
    ELSE IF kind = "QueueChannelsOnly" THEN [msg |-> "queue_channel_only", logged |-> FALSE]
    ELSE IF kind = "SameRolesForDuo" THEN [msg |-> "duo_different_roles", logged |-> FALSE]
    ELSE IF kind = "AdminGroupOnly" THEN [msg |-> "admins_only", logged |-> FALSE]
    ELSE IF kind = "CommandInvokeError" THEN
        IF original = "PlayerInGame" THEN
            [msg |-> IF tournaments THEN "unscored_game_auto" ELSE "unscored_game_won",
             logged |-> FALSE]
        ELSE IF original = "PlayerInReadyCheck" THEN
            [msg |-> "game_already_found", logged |-> FALSE]
        ELSE [msg |-> "generic_error", logged |-> TRUE]
    ELSE [msg |-> "generic_error", logged |-> TRUE]

\* a command ended with `original` raised in its body (wrapped by the command
\* framework in CommandInvokeError) and was answered by on_command_error
Failed(name, original) ==
    LET r == on_command_error("CommandInvokeError", original)
    IN  [NoStep EXCEPT !.name = name, !.thread = "loop",
                       !.error = original, !.msg = r.msg, !.logged = r.logged]

Done(name) == [NoStep EXCEPT !.name = name, !.thread = "loop"]

\* a command was rejected with an error of `kind` raised outside its body
Rejected(kind) ==
    LET r == on_command_error(kind, None)
    IN  [NoStep EXCEPT !.name = "command", !.thread = "loop", !.error = kind,
                       !.msg = r.msg, !.logged = r.logged]

\* the event loop thread is free to start a handler or a task
LoopFree == ~closed /\ inflight = NoAction

\* ------------------------------------------------------ the engine
NoCheck == [p \in Players |-> None]
Participants(rc) == {p \in Players : rc[p] # None}
GameIds(s) == 1..Len(games[s])

PlayerInGame(s, p) ==
    \E i \in GameIds(s) : games[s][i].status = "AwaitingResult" /\ p \in games[s][i].players
PlayerInReadyCheck(s, p) == ready_check[s][p] # None

\* the sets of queued players that cover every required role exactly once
\* and contain the duo partner of each of their members
Coverings(q, d) ==
    {c \in SUBSET Players :
        /\ \A p \in c : q[p] # None
        /\ \A r \in Roles : Cardinality({p \in c : q[p] = r}) = 1
        /\ \A p \in c : d[p] # NoPartner => d[p] \in c}

\* a comes before b: the lowest player in which they differ is in a
Before(a, b) ==
    \/ a = b
    \/ LET diff == (a \ b) \cup (b \ a)
       IN  (CHOOSE x \in diff : \A y \in diff : x <= y) \in a

\* Matchmaker: one queued player per required role, lowest player first, a
\* duo taken as a unit
Candidate(q, d) ==
    LET cs == Coverings(q, d)
    IN  IF cs = {} THEN {} ELSE CHOOSE c \in cs : \A o \in cs : Before(c, o)

\* a ReadyCheck is active on the server
AlreadyPendingNever(s) == FALSE
AlreadyPending(s) == ready_check[s] # NoCheck

\* start(candidate): every participant Pending
Proposed(c) == [x \in Players |-> IF x \in c THEN "Pending" ELSE None]

\* removing the entries of `ps` removes their duo links, on both sides
Unlink(d, ps) ==
    [x \in Players |-> IF x \in ps \/ d[x] \in ps THEN NoPartner ELSE d[x]]

\* the matchmaking attempt over the queue q with the links d: a candidate is
\* proposed and its ReadyCheck started, unless one is active
Matchmaking(s, q, d) ==
    LET c == Candidate(q, d)
        start == c # {} /\ ~AlreadyPending(s) /\ Len(games[s]) < MaxGames
    IN  /\ ready_check' = IF start THEN [ready_check EXCEPT ![s] = Proposed(c)]
                                    ELSE ready_check
        /\ rc_timers' = IF start THEN [rc_timers EXCEPT ![s] = @ \cup {"live"}]
                                  ELSE rc_timers

\* resolving a check orphans its deadline timer
OrphanKeepsLive(ts) == ts
Orphan(ts) == IF "live" \in ts THEN (ts \ {"live"}) \cup {"stale"} ELSE ts

\* game_queue.cancel_all_ready_checks()
cancel_all_ready_checks ==
    /\ ready_check' = [s \in Servers |-> NoCheck]
    /\ rc_timers' = [s \in Servers |-> Orphan(rc_timers[s])]

\* the checks of join without the one for an entry already there
JoinErrorNoDuplicateCheck(s, p) ==
    IF PlayerInGame(s, p) THEN "PlayerInGame"
    ELSE IF PlayerInReadyCheck(s, p) THEN "PlayerInReadyCheck"
    ELSE None

\* the checks of join: the error it raises, None when it may proceed
JoinError(s, p) ==
    IF PlayerInGame(s, p) THEN "PlayerInGame"
    ELSE IF PlayerInReadyCheck(s, p) THEN "PlayerInReadyCheck"
    ELSE IF queue[s][p] # None THEN "AlreadyQueued"
    ELSE None

\* the entry is inserted and matchmaking is attempted
JoinInsert(s, p, r) ==
    LET q == [queue[s] EXCEPT ![p] = r]
    IN  /\ queue' = [queue EXCEPT ![s] = q]
        /\ Matchmaking(s, q, duo[s])
        /\ last' = Done("join")
        /\ UNCHANGED <<duo, games>>

\* join(serverId, player, role), as one step of the event loop thread
Join(s, p, r) ==
    /\ LoopFree
    /\ IF JoinError(s, p) # None
         THEN last' = Failed("join", JoinError(s, p)) /\ UNCHANGED engine
         ELSE JoinInsert(s, p, r)
    /\ UNCHANGED <<now, config, sched, closed, ready_pc, inflight>>

\* join as the timer threads see it: its checks (JoinBegin), then its
\* insertion (JoinCommit); the event loop thread runs nothing else in between
JoinBegin(s, p, r) ==
    /\ LoopFree
    /\ IF JoinError(s, p) # None
         THEN inflight' = NoAction /\ last' = Failed("join", JoinError(s, p))
         ELSE inflight' = <<s, p, r>> /\ last' = Done("join_begin")
    /\ UNCHANGED <<now, config, sched, closed, ready_pc, engine>>

JoinCommit ==
    /\ inflight # NoAction
    /\ JoinInsert(inflight[1], inflight[2], inflight[3])
    /\ inflight' = NoAction
    /\ UNCHANGED <<now, config, sched, closed, ready_pc>>

\* joinDuo(serverId, playerA, roleA, playerB, roleB)
JoinDuo(s, a, ra, b, rb) ==
    /\ LoopFree
    /\ a # b
    /\ IF ra = rb
         THEN /\ last' = [Rejected("SameRolesForDuo") EXCEPT !.name = "join_duo"]
              /\ UNCHANGED engine
       ELSE IF JoinError(s, a) # None
         THEN last' = Failed("join_duo", JoinError(s, a)) /\ UNCHANGED engine
       ELSE IF JoinError(s, b) # None
         THEN last' = Failed("join_duo", JoinError(s, b)) /\ UNCHANGED engine
       ELSE LET q == [queue[s] EXCEPT ![a] = ra, ![b] = rb]
                d == [duo[s] EXCEPT ![a] = b, ![b] = a]
            IN  /\ queue' = [queue EXCEPT ![s] = q]
                /\ duo' = [duo EXCEPT ![s] = d]
                /\ Matchmaking(s, q, d)
                /\ last' = Done("join_duo")
                /\ UNCHANGED games
    /\ UNCHANGED <<now, config, sched, closed, ready_pc, inflight>>

\* a matchmaking attempt made once a ReadyCheck has resolved, so that the
\* entries it freed can match again
Matchmake(s) ==
    /\ LoopFree
    /\ Candidate(queue[s], duo[s]) # {}
    /\ Len(games[s]) < MaxGames
    /\ IF AlreadyPending(s)
         THEN last' = Failed("start", "AlreadyPending") /\ UNCHANGED engine
         ELSE /\ Matchmaking(s, queue[s], duo[s])
              /\ last' = Done("start")
              /\ UNCHANGED <<queue, duo, games>>
    /\ UNCHANGED <<now, config, sched, closed, ready_pc, inflight>>

Leave(s, p) ==
    /\ LoopFree
    /\ queue[s][p] # None
    /\ queue' = [queue EXCEPT ![s][p] = None]
    /\ duo' = [duo EXCEPT ![s] = Unlink(@, {p})]
    /\ last' = Done("leave")
    /\ UNCHANGED <<now, config, sched, closed, ready_pc, inflight, ready_check, rc_timers, games>>

\* resetQueue(serverId), the admin override: the entries of one server
ResetQueue(s) ==
    /\ LoopFree
    /\ queue' = [queue EXCEPT ![s] = EmptyQueue]
    /\ duo' = [duo EXCEPT ![s] = NoLinks]
    /\ last' = Done("reset")
    /\ UNCHANGED <<now, config, sched, closed, ready_pc, inflight, ready_check, rc_timers, games>>

\* create(candidate): one Game in AwaitingResult for the candidate
create_twice(gs, ps) ==
    Append(Append(gs, [players |-> ps, status |-> "AwaitingResult"]),
           [players |-> ps, status |-> "AwaitingResult"])
create(gs, ps) == Append(gs, [players |-> ps, status |-> "AwaitingResult"])

\* respond(player, accept | decline)
Respond(s, p, accept) ==
    /\ LoopFree
    /\ LET rc == [ready_check[s] EXCEPT ![p] = "Accepted"]
           ps == Participants(rc)
           confirmed == \A x \in ps : rc[x] = "Accepted"
           stale == \E x \in ps : queue[s][x] = None
       IN  IF ready_check[s][p] = None
             THEN last' = Failed("respond", "NoActiveCheck") /\ UNCHANGED engine
           ELSE IF ~accept
             THEN /\ ready_check' = [ready_check EXCEPT ![s] = NoCheck]
                  /\ rc_timers' = [rc_timers EXCEPT ![s] = Orphan(@)]
                  /\ queue' = [queue EXCEPT ![s][p] = None]
                  /\ duo' = [duo EXCEPT ![s] = Unlink(@, {p})]
                  /\ last' = Done("decline")
                  /\ UNCHANGED games
           ELSE IF ~confirmed
             THEN /\ ready_check' = [ready_check EXCEPT ![s] = rc]
                  /\ last' = Done("accept")
                  /\ UNCHANGED <<queue, duo, rc_timers, games>>
           ELSE IF stale
             THEN last' = Failed("respond", "StaleCandidate") /\ UNCHANGED engine
           ELSE /\ games' = [games EXCEPT ![s] = create(@, ps)]
                /\ queue' = [queue EXCEPT ![s] = [x \in Players |-> IF x \in ps THEN None ELSE queue[s][x]]]
                /\ duo' = [duo EXCEPT ![s] = Unlink(@, ps)]
                /\ ready_check' = [ready_check EXCEPT ![s] = NoCheck]
                /\ rc_timers' = [rc_timers EXCEPT ![s] = Orphan(@)]
                /\ last' = Done("confirm")
    /\ UNCHANGED <<now, config, sched, closed, ready_pc, inflight>>

\* a deadline timer fires: Timeout for the check it was started for, a
\* silent no-op once that check has resolved
DeadlineFire(s, t) ==
    /\ LoopFree
    /\ t \in rc_timers[s]
    /\ rc_timers' = [rc_timers EXCEPT ![s] = @ \ {t}]
    /\ ready_check' = IF t = "live" THEN [ready_check EXCEPT ![s] = NoCheck] ELSE ready_check
    /\ last' = Done(IF t = "live" THEN "timeout" ELSE "stale_timer")
    /\ UNCHANGED <<now, config, sched, closed, ready_pc, inflight, queue, duo, games>>

\* score(gameId, outcome) / cancel(gameId, reason)
Resolve(s, i, status) ==
    /\ LoopFree
    /\ i \in GameIds(s)
    /\ IF games[s][i].status = "AwaitingResult"
         THEN games' = [games EXCEPT ![s][i].status = status] /\ last' = Done("resolve")
         ELSE last' = Failed("resolve", "AlreadyScored") /\ UNCHANGED games
    /\ UNCHANGED <<now, config, sched, closed, ready_pc, inflight, queue, duo, ready_check,
                   rc_timers>>

\* ------------------------------------------------------- on_ready
\* the statements of on_ready between its awaits, in program order
OnReadyRenderFirst == <<"update_queue_channels", "cancel_all_ready_checks", "background_jobs">>
OnReadyOrder == <<"cancel_all_ready_checks", "update_queue_channels", "background_jobs">>

OnReadyStep(step) ==
    IF step = "cancel_all_ready_checks" THEN
        /\ cancel_all_ready_checks
        /\ last' = [Done("cancel_all_ready_checks") EXCEPT
                      !.cancelled = {s \in Servers : ready_check[s] # NoCheck}]
        /\ UNCHANGED <<sched, queue, duo, games>>
    ELSE IF step = "update_queue_channels" THEN
        /\ last' = Done("on_ready_render")
        /\ UNCHANGED <<sched, engine>>
    ELSE \E fault \in Faults : background_jobs("loop", fault, timers)

\* on_ready is dispatched (initial connect or reconnect) and runs to its first await
OnReadyBegin ==
    /\ LoopFree
    /\ ready_pc = <<>>
    /\ PendingTimers < MaxReady
    /\ OnReadyStep(Head(OnReadyOrder))
    /\ ready_pc' = Tail(OnReadyOrder)
    /\ UNCHANGED <<now, config, closed, inflight>>

\* on_ready resumes after an await
OnReadyResume ==
    /\ LoopFree
    /\ ready_pc # <<>>
    /\ OnReadyStep(Head(ready_pc))
    /\ ready_pc' = Tail(ready_pc)
    /\ UNCHANGED <<now, config, closed, inflight>>

\* the bot is closed: the event loop stops and its coroutines and tasks are
\* cancelled; nothing cancels the threading.Timer of the scheduler
Shutdown ==
    /\ LoopFree
    /\ closed' = TRUE
    /\ ready_pc' = <<>>
    /\ tasks' = {}
    /\ last' = Done("close")
    /\ UNCHANGED <<now, config, timers, job_counter, reset_this_minute, inflight, engine>>

\* the event loop runs a task created by background_jobs
RunTask(t) ==
    /\ LoopFree
    /\ t \in tasks
    /\ tasks' = tasks \ {t}
    /\ IF t[1] = "update_queue_channels"
         THEN last' = Done("update_queue_channels") /\ UNCHANGED games
         ELSE \E done \in SUBSET {i \in GameIds(t[2]) : games[t[2]][i].status = "AwaitingResult"} :
                /\ games' = [games EXCEPT ![t[2]] =
                               [i \in GameIds(t[2]) |->
                                  IF i \in done THEN [@[i] EXCEPT !.status = "Scored"] ELSE @[i]]]
                /\ last' = [Done("tournament_check") EXCEPT !.server = t[2]]
    /\ UNCHANGED <<now, config, timers, job_counter, reset_this_minute, closed, ready_pc,
                   inflight, queue, duo, ready_check, rc_timers>>

\* a command is rejected before its body runs, or raises an unforeseen error
CommandFails(kind) ==
    /\ LoopFree
    /\ last' = Rejected(kind)
    /\ UNCHANGED <<now, config, sched, closed, ready_pc, inflight, engine>>

\* ---------------------------------------------------- specification
\* the state once InhouseBot is constructed, whatever the configuration
Constructed ==
    /\ now = 0
    /\ timers = NoTimers
    /\ job_counter = 0
    /\ closed = FALSE
    /\ ready_pc = <<>>
    /\ tasks = {}
    /\ inflight = NoAction
    /\ queue = [s \in Servers |-> EmptyQueue]
    /\ duo = [s \in Servers |-> NoLinks]
    /\ ready_check = [s \in Servers |-> NoCheck]
    /\ rc_timers = [s \in Servers |-> {}]
    /\ games = [s \in Servers |-> <<>>]
    /\ reset_this_minute = FALSE
    /\ last = NoStep

Init ==
    /\ Constructed
    /\ interval \in 1..MaxInterval
    /\ queue_reset \in [Servers -> BOOLEAN]
    /\ tournaments \in BOOLEAN
    /\ queue_channels \in SUBSET Servers

Scheduler ==
    \/ OnReadyBegin
    \/ OnReadyResume
    \/ TimerFire
    \/ Advance
    \/ Shutdown
    \/ \E t \in TaskIds : RunTask(t)

\* the queue commands are accepted in the queue channels only; elsewhere they
\* are rejected with QueueChannelsOnly before they run (CommandFails)
Interactive ==
    \/ \E s \in queue_channels, p \in Players, r \in Roles : Join(s, p, r)
    \/ \E s \in queue_channels, p \in Players : Leave(s, p)
    \/ \E s \in queue_channels, p \in Players, a \in BOOLEAN : Respond(s, p, a)
    \/ \E s \in queue_channels, t \in {"live", "stale"} : DeadlineFire(s, t)
    \/ \E s \in queue_channels, i \in 1..MaxGames, st \in {"Scored", "Cancelled"} :
          Resolve(s, i, st)

Next ==
    \/ Scheduler
    \/ Interactive
    \/ \E s \in queue_channels, p \in Players, r \in Roles : JoinBegin(s, p, r)
    \/ JoinCommit
    \/ \E s \in queue_channels, a \in Players, b \in Players, ra \in Roles, rb \in Roles :
          JoinDuo(s, a, ra, b, rb)
    \/ \E s \in queue_channels : Matchmake(s)
    \/ \E s \in queue_channels : ResetQueue(s)
    \/ \E k \in ErrorKinds : CommandFails(k)

Spec == Init /\ [][Next]_vars

\* The scheduler alone: the timer chains, the clock and the tasks it hands to
\* the event loop, for every configuration; no server has a queue channel.
InitSched ==
    /\ Constructed
    /\ interval \in 1..MaxInterval
    /\ queue_reset \in [Servers -> BOOLEAN]
    /\ tournaments \in BOOLEAN
    /\ queue_channels = {}

SpecSched == InitSched /\ [][Scheduler]_vars

\* The engine driven by the interactive commands on the one server that has a
\* queue channel, with on_ready, its tasks and shutdown, inside one
\* wall-clock minute (the reset minute).
InitEngine ==
    /\ Constructed
    /\ interval = 1
    /\ queue_reset = [s \in Servers |-> TRUE]
    /\ tournaments = FALSE
    /\ queue_channels = {Guilds[1]}

NextEngine ==
    \/ Interactive
    \/ OnReadyBegin
    \/ OnReadyResume
    \/ \E t \in TaskIds : RunTask(t)

SpecEngine == InitEngine /\ [][NextEngine]_vars

\* The periodic reset against the queue: the scheduler with the commands that
\* fill and empty the queue of the one server that has a queue channel.
InitReset ==
    /\ Constructed
    /\ interval = 1
    /\ queue_reset \in [Servers -> BOOLEAN]
    /\ tournaments = FALSE
    /\ \E s \in Servers : queue_channels = {s}

NextReset ==
    \/ OnReadyBegin
    \/ OnReadyResume
    \/ TimerFire
    \/ Advance
    \/ \E t \in TaskIds : RunTask(t)
    \/ \E s \in queue_channels, p \in Players, r \in Roles : JoinBegin(s, p, r)
    \/ JoinCommit
    \/ \E s \in queue_channels, p \in Players : Leave(s, p)

SpecReset == InitReset /\ [][NextReset]_vars

\* The queue, ready-check and game operations in full (solo and duo joins,
\* matchmaking attempts, the reset of one server) on the one server that has
\* a queue channel.
NextQueue ==
    \/ Interactive
    \/ \E s \in queue_channels, a \in Players, b \in Players, ra \in Roles, rb \in Roles :
          JoinDuo(s, a, ra, b, rb)
    \/ \E s \in queue_channels : Matchmake(s)
    \/ \E s \in queue_channels : ResetQueue(s)

SpecQueue == InitEngine /\ [][NextQueue]_vars

\* The same operations with the commands that are rejected before they run,
\* with and without tournaments.
InitErrors ==
    /\ Constructed
    /\ interval = 1
    /\ queue_reset = [s \in Servers |-> TRUE]
    /\ tournaments \in BOOLEAN
    /\ queue_channels = {Guilds[1]}

NextErrors ==
    \/ NextQueue
    \/ \E k \in ErrorKinds : CommandFails(k)

SpecErrors == InitErrors /\ [][NextErrors]_vars

\* ================================================================ claims
\* a step that ran background_jobs
Ticked == job_counter' # job_counter
BarErrors == {"PlayerInGame", "PlayerInReadyCheck"}
Barred(s, p) == PlayerInGame(s, p) \/ PlayerInReadyCheck(s, p)

\* C1: a scheduler tick never mutates queue, ready-check or game state from
\* its timer thread, nor while an interactive action is in progress on the
\* event loop: whatever it changes it only hands to the event loop.
C1_TickOnlySchedules ==
    [][(Ticked /\ (last'.thread = "timer" \/ inflight # NoAction))
          => UNCHANGED engine]_vars

\* C2: after any sequence of on_ready events and ticks at most one scheduler
\* timer is pending.
C2_SingleTickLoop == PendingTimers <= 1

\* C3: within one occurrence of the reset minute at most one tick calls
\* reset_queue, whatever the tick interval.
C3_ResetOncePerMinute == last.name = "background_jobs" => ~last.repeated

\* C4: a tick at the reset time (that raised nothing) clears the queue of
\* exactly the servers whose queue_reset setting is enabled.
C4_ResetExactlyEnabled ==
    [][(Ticked /\ last'.at_reset /\ ~last'.raised)
          => \A s \in Servers :
                IF queue_reset[s] THEN queue'[s] = EmptyQueue
                                  ELSE queue'[s] = queue[s]]_vars

C6_TickSurvivesFailure ==
    last.name = "background_jobs" =>
        /\ job_counter = last.counter + 1
        /\ PendingTimers >= 1

\* a tick on a timer thread raised and was survived
C6_Witness ==
    /\ last.name = "background_jobs"
    /\ last.thread = "timer"
    /\ last.raised
    /\ last.counter > 0

\* C7: right after cancel_all_ready_checks no server has a Pending check and
\* no deadline timer can still resolve one; and whenever on_ready is
\* suspended with the rendering or its first tick still ahead, the
\* cancellation has already been done.
C7_CancelBeforeRenderAndTick ==
    /\ last.name = "cancel_all_ready_checks" =>
          \A s \in Servers : ready_check[s] = NoCheck /\ "live" \notin rc_timers[s]
    /\ \A i \in 1..Len(ready_pc) : ready_pc[i] # "cancel_all_ready_checks"

\* on_ready force-cancelled a Pending check and is suspended before rendering
C7_Witness ==
    /\ last.name = "cancel_all_ready_checks"
    /\ last.cancelled # {}
    /\ Len(ready_pc) = 2

\* C8: once the bot is shut down no background_jobs tick fires.
C8_NoTickAfterShutdown == closed => last.name # "background_jobs"

\* C9: the tick that resets empties every queue and leaves the ready-checks,
\* their deadline timers and the games as they were.
C9_ResetLeavesChecksAndGames ==
    [][(Ticked /\ last'.reset)
          => /\ \A s \in Servers : queue'[s] = EmptyQueue
             /\ ready_check' = ready_check
             /\ rc_timers' = rc_timers
             /\ games' = games]_vars

\* a reset left a Pending ready-check in flight, its participants unqueued
C9_Witness ==
    /\ last.name = "background_jobs"
    /\ last.reset
    /\ \E s \in Servers : ready_check[s] # NoCheck /\ queue[s] = EmptyQueue

\* C10: a barred player never obtains a queue entry; a join by a barred
\* player is a step that changes no engine state and is answered with the
\* message of PlayerInGame or of PlayerInReadyCheck.
C10_BarredJoinFails ==
    [][/\ queue' # queue =>
             \A s \in Servers, p \in Players :
                (queue[s][p] = None /\ queue'[s][p] # None) => ~Barred(s, p)
       /\ last'.name = "join" =>
             \A s \in queue_channels, p \in Players, r \in Roles :
                (Barred(s, p) /\ Join(s, p, r)) =>
                   /\ UNCHANGED engine
                   /\ last'.error = (IF PlayerInGame(s, p) THEN "PlayerInGame"
                                                           ELSE "PlayerInReadyCheck")
                   /\ last'.msg = (IF ~PlayerInGame(s, p) THEN "game_already_found"
                                   ELSE IF tournaments THEN "unscored_game_auto"
                                   ELSE "unscored_game_won")
                   /\ ~last'.logged]_vars

\* a participant of an unscored game tried to queue and was refused
C10_Witness ==
    /\ last.name = "join"
    /\ last.error = "PlayerInGame"
    /\ \E s \in Servers : \E i \in GameIds(s) : games[s][i].status = "AwaitingResult"

\* C11: the two entries of a duo link are queued with different roles, and
\* the link is symmetric; a joinDuo with roleA = roleB changes no engine
\* state and is answered with the message of SameRolesForDuo.
C11_DuoRolesDiffer ==
    /\ [](\A s \in Servers, p \in Players :
            duo[s][p] # NoPartner =>
               /\ duo[s][duo[s][p]] = p
               /\ queue[s][p] # None
               /\ queue[s][duo[s][p]] # None
               /\ queue[s][p] # queue[s][duo[s][p]])
    /\ [][last'.name = "join_duo" =>
             \A s \in queue_channels, a \in Players, b \in Players, r \in Roles :
                JoinDuo(s, a, r, b, r) =>
                   /\ UNCHANGED engine
                   /\ last'.error = "SameRolesForDuo"
                   /\ last'.msg = "duo_different_roles"
                   /\ ~last'.logged]_vars

\* a joinDuo with equal roles was refused while a duo is queued
C11_Witness ==
    /\ last.name = "join_duo"
    /\ last.error = "SameRolesForDuo"
    /\ \E s \in Servers, p \in Players : duo[s][p] # NoPartner

\* C12: while a server has an active ReadyCheck no step starts another one:
\* the active check keeps its participants and what they answered until it
\* resolves, and a matchmaking attempt made meanwhile fails with
\* AlreadyPending and changes no engine state.
C12_OnePendingCheck ==
    [][\A s \in Servers :
          ready_check[s] # NoCheck =>
             /\ \/ ready_check'[s] = NoCheck
                \/ /\ Participants(ready_check'[s]) = Participants(ready_check[s])
                   /\ \A p \in Players :
                         ready_check[s][p] = "Accepted" => ready_check'[s][p] = "Accepted"
             /\ Matchmake(s) => (last'.error = "AlreadyPending" /\ UNCHANGED engine)]_vars

\* a matchmaking attempt was refused while a partly accepted check is active
C12_Witness ==
    /\ last.name = "start"
    /\ last.error = "AlreadyPending"
    /\ \E s \in Servers, p \in Players : ready_check[s][p] = "Accepted"

\* C13: the games of a server grow by one game at a time and only in the
\* step in which the last Pending participant of its active ReadyCheck
\* accepts; that game holds exactly the participants of the check, which is
\* Idle afterwards, so that no later accept, timer or tick adds a second
\* game for it. Conversely the step that confirms a check creates its game.
C13_GameIffConfirmed ==
    [][/\ \A s \in Servers :
             games'[s] # games[s] /\ Len(games'[s]) # Len(games[s]) =>
                /\ Len(games'[s]) = Len(games[s]) + 1
                /\ SubSeq(games'[s], 1, Len(games[s])) = games[s]
                /\ last'.name = "confirm"
                /\ ready_check[s] # NoCheck
                /\ Cardinality({p \in Players : ready_check[s][p] = "Pending"}) = 1
                /\ games'[s][Len(games'[s])] =
                      [players |-> Participants(ready_check[s]), status |-> "AwaitingResult"]
                /\ ready_check'[s] = NoCheck
                /\ "live" \notin rc_timers'[s]
       /\ last'.name = "confirm" =>
             \E s \in Servers : Len(games'[s]) = Len(games[s]) + 1]_vars

\* a game exists, its check is resolved, and on_ready has ticked since
C13_Witness ==
    /\ last.name = "background_jobs"
    /\ \E s \in Servers :
          /\ Len(games[s]) = 1
          /\ ready_check[s] = NoCheck
          /\ "stale" \in rc_timers[s]

\* C14: a deadline timer can resolve a check only while that check is
\* active; when it fires then, the check is cancelled (Timeout) and nothing
\* else changes; the timer of a check that was confirmed or cancelled fires
\* as a no-op that raises nothing and changes neither queue, check nor game,
\* also when a newer check is active by then.
C14_IdempotentExpiry ==
    /\ [](\A s \in Servers : "live" \in rc_timers[s] <=> ready_check[s] # NoCheck)
    /\ [][last'.name \in {"timeout", "stale_timer"} =>
             \A s \in queue_channels, t \in {"live", "stale"} :
                DeadlineFire(s, t) =>
                   /\ UNCHANGED <<queue, duo, games>>
                   /\ last'.error = None
                   /\ IF t = "live"
                        THEN ready_check[s] # NoCheck /\ ready_check'[s] = NoCheck
                        ELSE ready_check' = ready_check]_vars

\* the timer of a resolved check fired while a newer check is active
C14_Witness ==
    /\ last.name = "stale_timer"
    /\ \E s \in Servers : ready_check[s] # NoCheck

NamedKinds == {"CommandNotFound", "MissingRequiredArgument", "ConversionError",
               "NoPrivateMessage", "QueueChannelsOnly", "SameRolesForDuo", "AdminGroupOnly"}
Named(kind, original) ==
    kind \in NamedKinds \/ (kind = "CommandInvokeError" /\ original \in BarErrors)

\* C17: for every error on_command_error sends one message, none for
\* ConversionError; SameRolesForDuo, PlayerInGame and PlayerInReadyCheck get
\* their own messages; the generic message and the log entry go together and
\* to exactly the errors no branch names; and every step that ends in an
\* error leaves the engine state as it was.
C17_ErrorsReported ==
    /\ [](\A kind \in ErrorKinds, original \in Originals \cup {None} :
            LET r == on_command_error(kind, original)
            IN  /\ r.msg = None <=> kind = "ConversionError"
                /\ kind = "SameRolesForDuo" => r.msg = "duo_different_roles"
                /\ (kind = "CommandInvokeError" /\ original = "PlayerInGame") =>
                      r.msg = (IF tournaments THEN "unscored_game_auto"
                                              ELSE "unscored_game_won")
                /\ (kind = "CommandInvokeError" /\ original = "PlayerInReadyCheck") =>
                      r.msg = "game_already_found"
                /\ r.logged <=> r.msg = "generic_error"
                /\ r.logged <=> ~Named(kind, original))
    /\ [][last'.error # None =>
             /\ UNCHANGED engine
             /\ \E kind \in ErrorKinds, original \in Originals \cup {None} :
                   /\ last'.error = (IF kind = "CommandInvokeError" /\ original # None
                                       THEN original ELSE kind)
                   /\ last'.msg = on_command_error(kind, original).msg
                   /\ last'.logged = on_command_error(kind, original).logged]_vars

\* a command failed in its converter while players are queued: no message
C17_Witness ==
    /\ last.error = "ConversionError"
    /\ last.msg = None
    /\ ~last.logged
    /\ \E s \in Servers, p \in Players : queue[s][p] # None

\* C18: a tick that polls schedules a tournament_check for every server the
\* bot is connected to.
C18_PollCoversAllServers ==
    (last.name = "background_jobs" /\ last.polls # {}) => last.polls = Servers

\* C19: with queue reset enabled for every server and the scheduler running
\* since before the minute QUEUE_RESET_TIME began (the bot is open, a timer
\* is pending, and the latest tick ran outside the reset minute and raised
\* nothing), the clock never leaves that minute without a tick of that
\* minute having called reset_queue.
C19_ResetNeverMissed ==
    [][(/\ now' # now
        /\ AtResetTime
        /\ ~AtResetTime'
        /\ \A s \in Servers : queue_reset[s]
        /\ ~closed
        /\ PendingTimers >= 1
        /\ job_counter < MaxTicks
        /\ last.name = "background_jobs"
        /\ ~last.at_reset
        /\ ~last.raised)
          => reset_this_minute]_vars

====
